---- MODULE Spec2Model ----
(***************************************************************************)
(* Model of src/main.py: the /optimize/day handler of the rekenservice.    *)
(*                                                                         *)
(* Time is counted in slots.  A slot is the 15-minute interval of one row  *)
(* of prognose.profiel_15m; slot i starts at time i and ends at time i+1.  *)
(* The day has DaySlots rows, of which slots StaffStartSlot ..             *)
(* StaffEndLastSlot lie inside the staffing window.  Head counts that the  *)
(* code holds as floats rounded to two decimals are held here as integers  *)
(* counted in hundredths, shares as integers counted in units of 1/96,     *)
(* and doel_pct as an integer counted in percent.                          *)
(***************************************************************************)
EXTENDS Integers, Sequences, FiniteSets

\* ---------------------------------------------------------------- bounds
\* slots of the day before the staffing window
PreSlots == 1
\* slots of the day inside the staffing window
WinSlots == 5
\* slots of the day after the staffing window
PostSlots == 1
\* slots per hour (the code's rows are 15 minutes apart)
SlotsPerHour == 1
\* largest stored share of a slot, in units of 1/96
MaxShare == 1

\* ------------------------------------------------------ program constants
MIN_SHIFT_HOURS == 3

DaySlots == PreSlots + WinSlots + PostSlots
StaffStartSlot == PreSlots + 1
StaffEndLastSlot == PreSlots + WinSlots
MinShift == MIN_SHIFT_HOURS * SlotsPerHour

\* ------------------------------------------------------------ input sets
\* payload.doel_pct, in percent (the payload is not validated)
DoelVals == {-23, 23, 35}
\* prognose.dag: no row, or one row holding omzet_p50
DagRows == {<<>>, <<0>>, <<-100>>, <<100>>}
\* AVG(all_in_eur) over kosten.uurlonen, 0 when there is no valid row
RateVals == {0, 23}
\* planning.template_bezetting rows for the month, role and day group,
\* in ORDER BY start_t
TemplateSets ==
  { <<>>,
    <<[st |-> StaffStartSlot + 1, et |-> StaffStartSlot + 3, h |-> 1, op |-> "base"]>>,
    <<[st |-> StaffStartSlot, et |-> StaffStartSlot + 2, h |-> 1, op |-> "base"],
      [st |-> StaffStartSlot + 1, et |-> StaffStartSlot + 2, h |-> 1, op |-> "add"],
      [st |-> StaffEndLastSlot, et |-> StaffEndLastSlot + 1, h |-> 1, op |-> "set"]>> }

VARIABLES
  pc,               \* position of the request in optimize
  doel_pct,         \* payload.doel_pct
  prognose_dag,     \* prognose.dag row of the date
  uurloon_avg,      \* result of the blended-rate query
  profiel_15m,      \* prognose.profiel_15m rows of the date: slot -> share
  template_rules,   \* rows of planning.template_bezetting
  demand_15m,       \* planning.demand_15m rows: slot -> heads_needed
  need,             \* integer head count per in-window slot
  rem,              \* blocks still to hand out / take back
  j,                \* round-robin counter, kept modulo len(order)
  k,                \* position of the synthesis loop in times
  active,           \* start times of the open shifts
  diensten_voorstel,\* planning.diensten_voorstel rows with bron='auto'
  voorstel_shifts,  \* planning.voorstel_shifts rows with bron='auto'
  kpi_dag,          \* planning.kpi_dag row of the date
  req,              \* the requests that share the database: request -> state
  db                \* the planning tables those requests share

vars == <<pc, doel_pct, prognose_dag, uurloon_avg, profiel_15m, template_rules,
          demand_15m, need, rem, j, k, active, diensten_voorstel,
          voorstel_shifts, kpi_dag, req, db>>

\* ------------------------------------------------------------- arithmetic
Max(a, b) == IF a >= b THEN a ELSE b

Min(a, b) == IF a <= b THEN a ELSE b

RECURSIVE SumSeq(_)
SumSeq(s) == IF Len(s) = 0 THEN 0 ELSE s[1] + SumSeq(Tail(s))

\* Python round(): n/d rounded to the nearest integer, halves to even (d > 0)
RoundDiv(n, d) ==
  LET q == n \div d
      r == n - q * d
  IN  IF 2 * r < d THEN q
      ELSE IF 2 * r > d THEN q + 1
      ELSE IF q % 2 = 0 THEN q ELSE q + 1

\* Python int(): n/d truncated toward zero (d > 0)
TruncDiv(n, d) == IF n >= 0 THEN n \div d ELSE -((-n) \div d)

\* --------------------------------------------------------------- helpers
\* _in_staff_window: local HH:MM between STAFF_START and STAFF_END_LAST_SLOT
InStaffWindow(ts) == (ts >= StaffStartSlot) /\ (ts <= StaffEndLastSlot)

\* the uniform profile written when rows are missing: 1.0/96 in every slot
UniformProfile == [ts \in 1..DaySlots |-> 1]

\* omzet_p50 = float(row[0])
Omzet == prognose_dag[1]

\* w_sum: sum of the shares inside the staffing window
RECURSIVE WSumFrom(_, _)
WSumFrom(prof, ts) ==
  IF ts > DaySlots THEN 0
  ELSE (IF InStaffWindow(ts) THEN prof[ts] ELSE 0) + WSumFrom(prof, ts + 1)

WSum(prof) == WSumFrom(prof, 1)

\* heads = round((a / w_sum) * target_uren_dag * 4, 2), in hundredths, with
\* target_uren_dag = (doel_pct * omzet_p50) / blended_rate
Heads(a, w_sum, doel, omzet, rate) ==
  RoundDiv(a * 4 * doel * omzet, w_sum * rate)

\* the rows written when a zero window sum falls back to an even spread
DemandRowsEvenSpread(prof, doel, omzet, rate) ==
  LET w_sum == WSum(prof)
  IN  [ts \in 1..DaySlots |->
         IF InStaffWindow(ts) /\ w_sum > 0
         THEN Heads(prof[ts], w_sum, doel, omzet, rate)
         ELSE IF InStaffWindow(ts) THEN Heads(1, WinSlots, doel, omzet, rate)
         ELSE 0]

\* the rows written to planning.demand_15m
DemandRows(prof, doel, omzet, rate) ==
  LET w_sum == WSum(prof)
  IN  [ts \in 1..DaySlots |->
         IF InStaffWindow(ts) /\ w_sum > 0
         THEN Heads(prof[ts], w_sum, doel, omzet, rate)
         ELSE 0]

\* times = [t for (t, h) in rows if _in_staff_window(t)]
Times == SelectSeq([i \in 1..DaySlots |-> i], InStaffWindow)

\* raw = [float(h or 0) for (t, h) in rows if _in_staff_window(t)]
Raw == [i \in 1..Len(Times) |-> demand_15m[Times[i]]]

\* ------------------------------------------------------ template baseline
\* one rule applied to b at local time tt (end exclusive)
ApplyRule(b, rule, tt) ==
  IF (tt >= rule.st) /\ (tt < rule.et)
  THEN IF rule.op = "base" THEN Max(b, rule.h)
       ELSE IF rule.op = "add" THEN b + rule.h
       ELSE IF rule.op = "set" THEN rule.h
       ELSE b
  ELSE b

RECURSIVE BaselineAt(_, _, _)
BaselineAt(rules, tt, b) ==
  IF Len(rules) = 0 THEN b
  ELSE BaselineAt(Tail(rules), tt, ApplyRule(b, rules[1], tt))

\* baseline[i] for every in-window slot
Baseline == [i \in 1..Len(Times) |-> BaselineAt(template_rules, Times[i], 0)]

\* target_blocks_dyn with the total cut off instead of rounded
TargetBlocksDynTrunc(raw) == TruncDiv(SumSeq(raw), 100)

\* ---------------------------------------------------------- integerization
\* target_blocks_dyn = int(round(sum(raw)))
TargetBlocksDyn(raw) == RoundDiv(SumSeq(raw), 100)

\* base_blocks = [int(x) for x in raw]
BaseBlocks(raw) == [i \in 1..Len(raw) |-> TruncDiv(raw[i], 100)]

\* frac = [x - b for x, b in zip(raw, base_blocks)], in hundredths
Frac(raw) == [i \in 1..Len(raw) |-> raw[i] - 100 * BaseBlocks(raw)[i]]

\* the ranking with equal keys in reverse index order
OrderDescLateFirst(frac) ==
  LET n == Len(frac)
      rank(i) == Cardinality({m \in 1..n : frac[m] > frac[i]
                                           \/ (frac[m] = frac[i] /\ m > i)})
  IN  [r \in 1..n |-> CHOOSE i \in 1..n : rank(i) = r - 1]

\* the ranking by frac[i] * (1 + 0.25 * i / (n - 1)), i counted from 0
OrderDescBiased(frac) ==
  LET n == Len(frac)
      key(i) == frac[i] * (4 * Max(n - 1, 1) + (i - 1))
      rank(i) == Cardinality({m \in 1..n : key(m) > key(i)
                                           \/ (key(m) = key(i) /\ m < i)})
  IN  [r \in 1..n |-> CHOOSE i \in 1..n : rank(i) = r - 1]

\* sorted(range(n), key=frac, reverse=True): largest first, equal keys in
\* index order (Python's sort is stable, also with reverse=True)
OrderDesc(frac) ==
  LET n == Len(frac)
      rank(i) == Cardinality({m \in 1..n : frac[m] > frac[i]
                                           \/ (frac[m] = frac[i] /\ m < i)})
  IN  [r \in 1..n |-> CHOOSE i \in 1..n : rank(i) = r - 1]

\* sorted(range(n), key=frac): smallest first, equal keys in index order
OrderAsc(frac) ==
  LET n == Len(frac)
      rank(i) == Cardinality({m \in 1..n : frac[m] < frac[i]
                                           \/ (frac[m] = frac[i] /\ m < i)})
  IN  [r \in 1..n |-> CHOOSE i \in 1..n : rank(i) = r - 1]

\* idx = order[j % len(order)]; j is kept modulo len(order), counted from 0
IncIdx(raw, jj) == OrderDesc(Frac(raw))[jj + 1]

DecIdx(raw, jj) == OrderAsc(Frac(raw))[jj + 1]

\* the baseline not enforced
EnforceBaselineSkipped(nd, baseline) == nd

\* the baseline written over every slot
EnforceBaselineOverwrite(nd, baseline) == baseline

\* the template baseline enforced as a floor
EnforceBaseline(nd, baseline) ==
  [i \in 1..Len(nd) |-> IF nd[i] < baseline[i] THEN baseline[i] ELSE nd[i]]

\* planned_blocks = sum(need)
PlannedBlocks(nd) == SumSeq(nd)

\* --------------------------------------------------------- shift synthesis
\* last_idx: last index with need > 0, 0 when there is none
LastIdx(nd) ==
  IF \E i \in 1..Len(nd) : nd[i] > 0
  THEN CHOOSE i \in 1..Len(nd) : nd[i] > 0 /\ \A m \in (i + 1)..Len(nd) : nd[m] <= 0
  ELSE 0

\* staff_end_ts = times[-1] + 15 minutes
StaffEndTs == Times[Len(Times)] + 1

\* needed_end = times[last_idx] + 15 minutes, or the end of the last slot
NeededEnd(nd) == IF LastIdx(nd) > 0 THEN Times[LastIdx(nd)] + 1 ELSE StaffEndTs

\* `if` in place of `while`: at most one shift opened per slot
OpenPhaseOne(act, t, required) ==
  IF Len(act) < required THEN Append(act, t) ELSE act

\* while len(active) < required: active.append(t)
OpenPhase(act, t, required) ==
  IF Len(act) < required
  THEN act \o [i \in 1..(required - Len(act)) |-> t]
  ELSE act

\* the age test without the minimum duration
MayCloseAnyAge(s, t) == (t - s) > 0

\* (t - s) >= timedelta(hours=MIN_SHIFT_HOURS)
MayClose(s, t) == (t - s) >= MinShift

\* active.pop() in place of active.pop(i): drops the newest open shift
RemoveLast(act, i) == SubSeq(act, 1, Len(act) - 1)

\* the open shifts without the entry at position i
RemoveAt(act, i) == [m \in 1..(Len(act) - 1) |-> IF m < i THEN act[m] ELSE act[m + 1]]

\* the close phase scanning from the newest open shift
RECURSIVE ClosePhaseNewest(_, _, _, _)
ClosePhaseNewest(act, t, required, rows) ==
  IF Len(act) > required /\ \E i \in 1..Len(act) : MayClose(act[i], t)
  THEN LET i == CHOOSE i \in 1..Len(act) :
                   MayClose(act[i], t) /\ \A m \in (i + 1)..Len(act) : ~MayClose(act[m], t)
       IN  ClosePhaseNewest(RemoveAt(act, i), t, required,
                            Append(rows, [start_ts |-> act[i], eind_ts |-> t, via |-> "close"]))
  ELSE [active |-> act, rows |-> rows]

\* while len(active) > required: close the first entry that may close, stop
\* when none may.  Returns the open shifts left and the rows inserted.
RECURSIVE ClosePhase(_, _, _, _)
ClosePhase(act, t, required, rows) ==
  IF Len(act) > required /\ \E i \in 1..Len(act) : MayClose(act[i], t)
  THEN LET i == CHOOSE i \in 1..Len(act) :
                   MayClose(act[i], t) /\ \A m \in 1..(i - 1) : ~MayClose(act[m], t)
       IN  ClosePhase(RemoveAt(act, i), t, required,
                      Append(rows, [start_ts |-> act[i], eind_ts |-> t, via |-> "close"]))
  ELSE [active |-> act, rows |-> rows]

\* the day-end close without the clamp to the end of the window
FinalEndUnclamped(s, needed_end, staff_end) == Max(s + MinShift, needed_end)

\* the day-end close at the last needed slot, whatever the age of the shift
FinalEndNeeded(s, needed_end, staff_end) ==
  IF needed_end > staff_end THEN staff_end ELSE needed_end

\* end of a shift still open after the last slot
FinalEnd(s, needed_end, staff_end) ==
  LET end == Max(s + MinShift, needed_end)
  IN  IF end > staff_end THEN staff_end ELSE end

\* the rows inserted by the day-end loop over active
FinalRows(act, nd) ==
  [i \in 1..Len(act) |->
     [start_ts |-> act[i], eind_ts |-> FinalEnd(act[i], NeededEnd(nd), StaffEndTs),
      via |-> "dayend"]]

\* personen_equiv = round(max(0.0, uren_blok * 4), 2), in hundredths, with
\* uren_blok = target_uren_dag * aandeel_p50 and shares in units of 1/96
PersonenEquiv(a, doel, omzet, rate) ==
  Max(0, RoundDiv(4 * doel * omzet * a, rate * 96))

\* geplande_uren_dag = planned_blocks / 4.0, counted in slots
GeplandeUren(nd) == PlannedBlocks(nd)

\* the row upserted into planning.kpi_dag; geplande_kosten is hours * rate
\* and geplande_pct is kosten / omzet * 100, both kept as exact quotients
\* over the number of slots per hour
KpiRow(nd, omzet, rate) ==
  [omzet_forecast_p50 |-> omzet,
   geplande_uren |-> GeplandeUren(nd),
   geplande_kosten |-> GeplandeUren(nd) * rate,
   geplande_pct |-> [num |-> GeplandeUren(nd) * rate * 100, den |-> omzet]]

\* ------------------------------------------------------------------ state
\* stored profiles with a row for every slot of the day; the slots outside
\* the window all hold the same share, 0 or 1
Profiles ==
  {[ts \in 1..DaySlots |-> IF InStaffWindow(ts) THEN w[ts - PreSlots] ELSE o] :
     w \in [1..WinSlots -> 0..MaxShare], o \in {0, 1}}

\* stored profiles with rows missing
ShortProfiles == {<<>>, <<1>>}

Init ==
  /\ pc = "forecast"
  /\ doel_pct \in DoelVals
  /\ prognose_dag \in DagRows
  /\ uurloon_avg \in RateVals
  /\ profiel_15m \in Profiles \cup ShortProfiles
  /\ template_rules \in TemplateSets
  /\ demand_15m = <<>>
  /\ need = <<>>
  /\ rem = 0
  /\ j = 0
  /\ k = 0
  /\ active = <<>>
  /\ diensten_voorstel = <<>>
  /\ voorstel_shifts = <<>>
  /\ kpi_dag = <<>>
  /\ req = <<>>
  /\ db = <<>>

\* ---------------------------------------------------------------- actions
\* SELECT omzet_p50 ...; if not row or not row[0]: raise 400
CheckForecast ==
  /\ pc = "forecast"
  /\ pc' = IF prognose_dag = <<>> \/ prognose_dag[1] = 0 THEN "rejected" ELSE "rate"
  /\ UNCHANGED <<doel_pct, prognose_dag, uurloon_avg, profiel_15m, template_rules,
                 demand_15m, need, rem, j, k, active, diensten_voorstel,
                 voorstel_shifts, kpi_dag>>
  /\ UNCHANGED <<req, db>>

\* blended_rate = float(AVG or 0); if blended_rate <= 0: raise 400
CheckRate ==
  /\ pc = "rate"
  /\ pc' = IF uurloon_avg <= 0 THEN "rejected" ELSE "profile"
  /\ UNCHANGED <<doel_pct, prognose_dag, uurloon_avg, profiel_15m, template_rules,
                 demand_15m, need, rem, j, k, active, diensten_voorstel,
                 voorstel_shifts, kpi_dag>>
  /\ UNCHANGED <<req, db>>

\* fetch the profile; with rows missing, replace it by the uniform profile
LoadProfile ==
  /\ pc = "profile"
  /\ profiel_15m' = IF Len(profiel_15m) < DaySlots THEN UniformProfile ELSE profiel_15m
  /\ pc' = "demand"
  /\ UNCHANGED <<doel_pct, prognose_dag, uurloon_avg, template_rules,
                 demand_15m, need, rem, j, k, active, diensten_voorstel,
                 voorstel_shifts, kpi_dag>>
  /\ UNCHANGED <<req, db>>

\* DELETE FROM planning.demand_15m; INSERT one row per profile row
WriteDemand ==
  /\ pc = "demand"
  /\ demand_15m' = DemandRows(profiel_15m, doel_pct, Omzet, uurloon_avg)
  /\ pc' = "read"
  /\ UNCHANGED <<doel_pct, prognose_dag, uurloon_avg, profiel_15m, template_rules,
                 need, rem, j, k, active, diensten_voorstel,
                 voorstel_shifts, kpi_dag>>
  /\ UNCHANGED <<req, db>>

\* read the demand back; need = base_blocks[:]; rem = target - sum(base_blocks)
ReadDemand ==
  /\ pc = "read"
  /\ need' = BaseBlocks(Raw)
  /\ rem' = TargetBlocksDyn(Raw) - SumSeq(BaseBlocks(Raw))
  /\ j' = 0
  /\ pc' = IF rem' > 0 /\ Len(Raw) > 0 THEN "inc"
           ELSE IF rem' < 0 /\ Len(Raw) > 0 THEN "dec"
           ELSE "baseline"
  /\ UNCHANGED <<doel_pct, prognose_dag, uurloon_avg, profiel_15m, template_rules,
                 demand_15m, k, active, diensten_voorstel,
                 voorstel_shifts, kpi_dag>>
  /\ UNCHANGED <<req, db>>

\* one pass of `while rem > 0`
IncStep ==
  /\ pc = "inc"
  /\ need' = [need EXCEPT ![IncIdx(Raw, j)] = @ + 1]
  /\ rem' = rem - 1
  /\ j' = (j + 1) % Len(Raw)
  /\ pc' = IF rem' > 0 THEN "inc" ELSE "baseline"
  /\ UNCHANGED <<doel_pct, prognose_dag, uurloon_avg, profiel_15m, template_rules,
                 demand_15m, k, active, diensten_voorstel,
                 voorstel_shifts, kpi_dag>>
  /\ UNCHANGED <<req, db>>

\* one pass of `while rem < 0`
DecStep ==
  /\ pc = "dec"
  /\ IF need[DecIdx(Raw, j)] > 0
     THEN /\ need' = [need EXCEPT ![DecIdx(Raw, j)] = @ - 1]
          /\ rem' = rem + 1
     ELSE UNCHANGED <<need, rem>>
  /\ j' = (j + 1) % Len(Raw)
  /\ pc' = IF rem' < 0 THEN "dec" ELSE "baseline"
  /\ UNCHANGED <<doel_pct, prognose_dag, uurloon_avg, profiel_15m, template_rules,
                 demand_15m, k, active, diensten_voorstel,
                 voorstel_shifts, kpi_dag>>
  /\ UNCHANGED <<req, db>>

\* enforce the template baseline; DELETE the auto rows; active = []
ApplyBaseline ==
  /\ pc = "baseline"
  /\ need' = EnforceBaseline(need, Baseline)
  /\ diensten_voorstel' = <<>>
  /\ active' = <<>>
  /\ k' = 1
  /\ pc' = "synth"
  /\ UNCHANGED <<doel_pct, prognose_dag, uurloon_avg, profiel_15m, template_rules,
                 demand_15m, rem, j, voorstel_shifts, kpi_dag>>
  /\ UNCHANGED <<req, db>>

\* one pass of `for t, required in zip(times, need)`
SynthSlot ==
  /\ pc = "synth"
  /\ k <= Len(Times)
  /\ LET t == Times[k]
         required == need[k]
         res == ClosePhase(OpenPhase(active, t, required), t, required, <<>>)
     IN  /\ active' = res.active
         /\ diensten_voorstel' = diensten_voorstel \o res.rows
  /\ k' = k + 1
  /\ UNCHANGED <<pc, doel_pct, prognose_dag, uurloon_avg, profiel_15m, template_rules,
                 demand_15m, need, rem, j, voorstel_shifts, kpi_dag>>
  /\ UNCHANGED <<req, db>>

\* after the last slot: insert a row for every shift still open
Finalize ==
  /\ pc = "synth"
  /\ k > Len(Times)
  /\ diensten_voorstel' = diensten_voorstel \o FinalRows(active, need)
  /\ pc' = "blocks"
  /\ UNCHANGED <<doel_pct, prognose_dag, uurloon_avg, profiel_15m, template_rules,
                 demand_15m, need, rem, j, k, active, voorstel_shifts, kpi_dag>>
  /\ UNCHANGED <<req, db>>

\* DELETE FROM planning.voorstel_shifts; INSERT one block row per profile row
WriteBlocks ==
  /\ pc = "blocks"
  /\ voorstel_shifts' =
       [ts \in 1..DaySlots |->
          [start_ts |-> ts, eind_ts |-> ts + 1,
           personen_equiv |-> PersonenEquiv(profiel_15m[ts], doel_pct, Omzet, uurloon_avg)]]
  /\ pc' = "kpi"
  /\ UNCHANGED <<doel_pct, prognose_dag, uurloon_avg, profiel_15m, template_rules,
                 demand_15m, need, rem, j, k, active, diensten_voorstel, kpi_dag>>
  /\ UNCHANGED <<req, db>>

\* INSERT INTO planning.kpi_dag ... ON CONFLICT (datum) DO UPDATE
WriteKpi ==
  /\ pc = "kpi"
  /\ kpi_dag' = <<KpiRow(need, Omzet, uurloon_avg)>>
  /\ pc' = "done"
  /\ UNCHANGED <<doel_pct, prognose_dag, uurloon_avg, profiel_15m, template_rules,
                 demand_15m, need, rem, j, k, active, diensten_voorstel,
                 voorstel_shifts>>
  /\ UNCHANGED <<req, db>>

Next ==
  \/ CheckForecast
  \/ CheckRate
  \/ LoadProfile
  \/ WriteDemand
  \/ ReadDemand
  \/ IncStep
  \/ DecStep
  \/ ApplyBaseline
  \/ SynthSlot
  \/ Finalize
  \/ WriteBlocks
  \/ WriteKpi

Spec == Init /\ [][Next]_vars

\* the handler runs to completion: no step of it waits for anything
FairSpec == Init /\ [][Next]_vars /\ WF_vars(Next)

TypeOK ==
  /\ pc \in {"forecast", "rate", "profile", "demand", "read", "inc", "dec",
             "baseline", "synth", "blocks", "kpi", "done", "rejected"}
  /\ j \in 0..WinSlots
  /\ k \in 0..(WinSlots + 1)

\* ------------------------------------------- requests sharing the database
\* The connection is opened with autocommit=True: every statement of a
\* request is committed on its own, and the statements of two requests may
\* interleave.  A run of single-row INSERTs of one loop is taken as one
\* step.  Rows carry the role they were written for; the date is the same
\* for all requests.

\* payload.rol of the requests
Roles == {"balie", "keuken"}

\* the requests
Procs == {1, 2}

\* DELETE ... WHERE datum=%s AND rol=%s with every row kept
DeleteRolKept(rows, r) == rows

\* DELETE ... WHERE datum=%s AND rol=%s
DeleteRol(rows, r) == SelectSeq(rows, LAMBDA x : x.rol # r)

\* DELETE FROM planning.voorstel_shifts WHERE datum=%s AND bron='auto'
DeleteAuto(rows) == <<>>

\* SELECT ... WHERE datum=%s AND rol=%s, in the order of insertion
RowsOfRol(rows, r) == SelectSeq(rows, LAMBDA x : x.rol = r)

\* ... ORDER BY start_ts
RECURSIVE OrderByStart(_, _)
OrderByStart(rows, ts) ==
  IF ts > DaySlots THEN <<>>
  ELSE SelectSeq(rows, LAMBDA x : x.start_ts = ts) \o OrderByStart(rows, ts + 1)

\* the rows a request reads back for the shift synthesis
InWindowRows(rows, r) ==
  SelectSeq(OrderByStart(RowsOfRol(rows, r), 1), LAMBDA x : InStaffWindow(x.start_ts))

\* the increment loop run to its end
RECURSIVE IncLoop(_, _, _, _)
IncLoop(nd, raw, rm, jj) ==
  IF rm > 0
  THEN IncLoop([nd EXCEPT ![IncIdx(raw, jj)] = @ + 1], raw, rm - 1, (jj + 1) % Len(raw))
  ELSE nd

\* the integer curve of a raw curve whose remainder is not negative
Integerized(raw) ==
  LET rm == TargetBlocksDyn(raw) - SumSeq(BaseBlocks(raw))
  IN  IF rm > 0 /\ Len(raw) > 0 THEN IncLoop(BaseBlocks(raw), raw, rm, 0)
      ELSE BaseBlocks(raw)

\* need after the baseline is enforced, for the slots times
NeedOf(times, raw) ==
  EnforceBaseline(Integerized(raw),
                  [i \in 1..Len(times) |-> BaselineAt(template_rules, times[i], 0)])

\* for t, required in zip(times, need), run to its end
RECURSIVE SynthLoop(_, _, _, _, _)
SynthLoop(times, nd, i, act, rows) ==
  IF i > Len(times) THEN [active |-> act, rows |-> rows]
  ELSE LET res == ClosePhase(OpenPhase(act, times[i], nd[i]), times[i], nd[i], rows)
       IN  SynthLoop(times, nd, i + 1, res.active, res.rows)

\* the day-end rows for the slots times
DayEndRows(act, times, nd) ==
  IF Len(times) = 0 THEN <<>>
  ELSE LET staff_end == times[Len(times)] + 1
           needed_end == IF LastIdx(nd) > 0 THEN times[LastIdx(nd)] + 1 ELSE staff_end
       IN  [i \in 1..Len(act) |->
              [start_ts |-> act[i], eind_ts |-> FinalEnd(act[i], needed_end, staff_end),
               via |-> "dayend"]]

\* every row the shift synthesis inserts, in the order of insertion
ShiftRows(times, nd) ==
  LET res == SynthLoop(times, nd, 1, <<>>, <<>>)
  IN  res.rows \o DayEndRows(res.active, times, nd)

\* the rows of a request for role r
DemandRowsFor(r) ==
  LET heads == DemandRows(profiel_15m, doel_pct, Omzet, uurloon_avg)
  IN  [ts \in 1..DaySlots |-> [rol |-> r, start_ts |-> ts, heads_needed |-> heads[ts]]]

ShiftRowsFor(r, times, nd) ==
  LET rows == ShiftRows(times, nd)
  IN  [i \in 1..Len(rows) |->
         [rol |-> r, start_ts |-> rows[i].start_ts, eind_ts |-> rows[i].eind_ts,
          via |-> rows[i].via]]

BlockRowsFor(r) ==
  [ts \in 1..DaySlots |->
     [rol |-> r, start_ts |-> ts, eind_ts |-> ts + 1,
      personen_equiv |-> PersonenEquiv(profiel_15m[ts], doel_pct, Omzet, uurloon_avg)]]

\* tables left by earlier requests: empty, or the rows of a day planned
\* with one head in every in-window slot for both roles
EmptyDb == [demand |-> <<>>, diensten |-> <<>>, shifts |-> <<>>, kpi |-> <<>>]

StaleRows(r) ==
  [demand |-> [ts \in 1..DaySlots |->
                 [rol |-> r, start_ts |-> ts,
                  heads_needed |-> IF InStaffWindow(ts) THEN 100 ELSE 0]],
   diensten |-> <<[rol |-> r, start_ts |-> StaffStartSlot,
                   eind_ts |-> StaffEndLastSlot + 1, via |-> "dayend"]>>,
   shifts |-> [ts \in 1..DaySlots |->
                 [rol |-> r, start_ts |-> ts, eind_ts |-> ts + 1, personen_equiv |-> 100]]]

StaleDb ==
  [demand |-> StaleRows("balie").demand \o StaleRows("keuken").demand,
   diensten |-> StaleRows("balie").diensten \o StaleRows("keuken").diensten,
   shifts |-> StaleRows("keuken").shifts,
   kpi |-> <<KpiRow([i \in 1..WinSlots |-> 1], 100, 23)>>]

\* stored profiles of the shared-database runs: uniform, a spike in the
\* first in-window slot, and demand in the first and the last in-window slot
DbProfiles ==
  { UniformProfile,
    [ts \in 1..DaySlots |-> IF ts = StaffStartSlot THEN 1 ELSE 0],
    [ts \in 1..DaySlots |-> IF ts = StaffStartSlot \/ ts = StaffEndLastSlot THEN 1 ELSE 0] }

\* the variables of the single request, which these runs leave alone
single == <<pc, demand_15m, need, rem, j, k, active, diensten_voorstel,
            voorstel_shifts, kpi_dag>>

\* the stored inputs, which no step from the demand rows on writes
inputs == <<doel_pct, prognose_dag, uurloon_avg, profiel_15m, template_rules>>

InitDB ==
  /\ pc = "forecast"
  /\ doel_pct \in {23, 35}
  /\ prognose_dag \in {<<>>, <<100>>}
  /\ uurloon_avg = 23
  /\ profiel_15m \in DbProfiles
  /\ template_rules \in TemplateSets
  /\ demand_15m = <<>>
  /\ need = <<>>
  /\ rem = 0
  /\ j = 0
  /\ k = 0
  /\ active = <<>>
  /\ diensten_voorstel = <<>>
  /\ voorstel_shifts = <<>>
  /\ kpi_dag = <<>>
  /\ req \in [Procs -> {[pc |-> "idle", rol |-> r, times |-> <<>>, need |-> <<>>,
                         before |-> EmptyDb] : r \in Roles}]
  /\ db \in {EmptyDb, StaleDb}

\* a request is between its first and its last statement
Running(p) == req[p].pc \notin {"idle", "done", "failed", "rejected"}

\* the request arrives: forecast and rate are validated, the profile (all
\* rows present) and the template rules are read
Begin(p) ==
  /\ req[p].pc = "idle"
  /\ req' = [req EXCEPT
       ![p].pc = IF prognose_dag = <<>> \/ prognose_dag[1] = 0 \/ uurloon_avg <= 0
                 THEN "rejected" ELSE "del_demand",
       ![p].before = db]
  /\ UNCHANGED <<db, single, inputs>>

\* DELETE FROM planning.demand_15m WHERE datum=%s AND rol=%s
DeleteDemand(p) ==
  /\ req[p].pc = "del_demand"
  /\ db' = [db EXCEPT !.demand = DeleteRol(@, req[p].rol)]
  /\ req' = [req EXCEPT ![p].pc = "ins_demand"]
  /\ UNCHANGED <<single, inputs>>

\* for ts, a in profiel: INSERT INTO planning.demand_15m ...
InsertDemand(p) ==
  /\ req[p].pc = "ins_demand"
  /\ db' = [db EXCEPT !.demand = @ \o DemandRowsFor(req[p].rol)]
  /\ req' = [req EXCEPT ![p].pc = "read"]
  /\ UNCHANGED <<single, inputs>>

\* read the demand back, integerize, enforce the baseline.  A negative
\* remainder enters the decrement loop, which Spec follows pass by pass.
ReadBack(p) ==
  /\ req[p].pc = "read"
  /\ LET rows == InWindowRows(db.demand, req[p].rol)
         times == [i \in 1..Len(rows) |-> rows[i].start_ts]
         raw == [i \in 1..Len(rows) |-> rows[i].heads_needed]
     IN  IF TargetBlocksDyn(raw) - SumSeq(BaseBlocks(raw)) < 0 /\ Len(raw) > 0
         THEN req' = [req EXCEPT ![p].pc = "dec"]
         ELSE req' = [req EXCEPT ![p].pc = "del_diensten",
                                 ![p].times = times,
                                 ![p].need = NeedOf(times, raw)]
  /\ UNCHANGED <<db, single, inputs>>

\* DELETE FROM planning.diensten_voorstel WHERE ... rol=%s AND bron='auto'
DeleteDiensten(p) ==
  /\ req[p].pc = "del_diensten"
  /\ db' = [db EXCEPT !.diensten = DeleteRol(@, req[p].rol)]
  /\ req' = [req EXCEPT ![p].pc = "ins_diensten"]
  /\ UNCHANGED <<single, inputs>>

\* the synthesis loop and the day-end loop with their INSERTs
InsertDiensten(p) ==
  /\ req[p].pc = "ins_diensten"
  /\ db' = [db EXCEPT !.diensten = @ \o ShiftRowsFor(req[p].rol, req[p].times, req[p].need)]
  /\ req' = [req EXCEPT ![p].pc = "del_shifts"]
  /\ UNCHANGED <<single, inputs>>

\* DELETE FROM planning.voorstel_shifts WHERE datum=%s AND bron='auto'
DeleteShifts(p) ==
  /\ req[p].pc = "del_shifts"
  /\ db' = [db EXCEPT !.shifts = DeleteAuto(@)]
  /\ req' = [req EXCEPT ![p].pc = "ins_shifts"]
  /\ UNCHANGED <<single, inputs>>

\* for start_ts, aandeel_p50 in profiel: INSERT INTO planning.voorstel_shifts
InsertShifts(p) ==
  /\ req[p].pc = "ins_shifts"
  /\ db' = [db EXCEPT !.shifts = @ \o BlockRowsFor(req[p].rol)]
  /\ req' = [req EXCEPT ![p].pc = "kpi"]
  /\ UNCHANGED <<single, inputs>>

\* INSERT INTO planning.kpi_dag ... ON CONFLICT (datum) DO UPDATE
UpsertKpi(p) ==
  /\ req[p].pc = "kpi"
  /\ db' = [db EXCEPT !.kpi = <<KpiRow(req[p].need, Omzet, uurloon_avg)>>]
  /\ req' = [req EXCEPT ![p].pc = "done"]
  /\ UNCHANGED <<single, inputs>>

\* a statement raises (connection lost, constraint, timeout): the exception
\* leaves the handler; what was committed stays
Fail(p) ==
  /\ req[p].pc \in {"del_demand", "ins_demand", "read", "del_diensten", "ins_diensten",
                    "del_shifts", "ins_shifts", "kpi"}
  /\ req' = [req EXCEPT ![p].pc = "failed"]
  /\ UNCHANGED <<db, single, inputs>>

\* a request arrives while no other request is running
BeginAlone(p) ==
  /\ \A q \in Procs \ {p} : ~Running(q)
  /\ Begin(p)

\* requests in any interleaving of their statements
NextDB ==
  \/ \E p \in Procs : Begin(p)
  \/ \E p \in Procs : DeleteDemand(p)
  \/ \E p \in Procs : InsertDemand(p)
  \/ \E p \in Procs : ReadBack(p)
  \/ \E p \in Procs : DeleteDiensten(p)
  \/ \E p \in Procs : InsertDiensten(p)
  \/ \E p \in Procs : DeleteShifts(p)
  \/ \E p \in Procs : InsertShifts(p)
  \/ \E p \in Procs : UpsertKpi(p)
  \/ \E p \in Procs : Fail(p)

SpecDB == InitDB /\ [][NextDB]_vars

\* requests one after the other
NextSeq ==
  \/ \E p \in Procs : BeginAlone(p)
  \/ \E p \in Procs : DeleteDemand(p)
  \/ \E p \in Procs : InsertDemand(p)
  \/ \E p \in Procs : ReadBack(p)
  \/ \E p \in Procs : DeleteDiensten(p)
  \/ \E p \in Procs : InsertDiensten(p)
  \/ \E p \in Procs : DeleteShifts(p)
  \/ \E p \in Procs : InsertShifts(p)
  \/ \E p \in Procs : UpsertKpi(p)
  \/ \E p \in Procs : Fail(p)

SpecSeq == InitDB /\ [][NextSeq]_vars

\* ===================================================== properties checked
\* the request is past the baseline step: need is the curve handed to the
\* shift synthesis
Synthesizing == pc \in {"synth", "blocks", "kpi", "done"}

\* every row of the request's shift set has been inserted
ShiftsWritten == pc \in {"blocks", "kpi", "done"}

\* end of the staffing window: the end of its last slot
WindowEnd == StaffEndLastSlot + 1

\* number of emitted shifts with start <= t < end
Cover(t) ==
  Cardinality({r \in 1..Len(diensten_voorstel) :
                 diensten_voorstel[r].start_ts <= t /\ t < diensten_voorstel[r].eind_ts})

\* number of emitted shifts that start at t
StartsAt(t) ==
  Cardinality({r \in 1..Len(diensten_voorstel) : diensten_voorstel[r].start_ts = t})

\* sum of the durations of the emitted shifts, in slots
RECURSIVE SumDurations(_)
SumDurations(rows) ==
  IF Len(rows) = 0 THEN 0
  ELSE (rows[1].eind_ts - rows[1].start_ts) + SumDurations(Tail(rows))

\* the open shifts after the first i slots of the curve nd were processed
RECURSIVE ActiveAfter(_, _)
ActiveAfter(nd, i) ==
  IF i = 0 THEN <<>>
  ELSE ClosePhase(OpenPhase(ActiveAfter(nd, i - 1), Times[i], nd[i]),
                  Times[i], nd[i], <<>>).active

\* no slot ends with more open shifts than it requires
Feasible(nd) == \A i \in 1..Len(nd) : Len(ActiveAfter(nd, i)) <= nd[i]

\* C1: once the shift set is written, every in-window slot is covered by at
\* least need[t] emitted shifts (start <= t < end): tolerated overcapacity
\* and the day-end close leave no slot short.
C1_NoUndercapacity ==
  ShiftsWritten =>
    \A i \in 1..Len(Times) : InStaffWindow(Times[i]) /\ Cover(Times[i]) >= need[i]

\* a finished request with overcapacity at some slot, a later slot that needs
\* staff again, and a shift closed at day end
C1_Witness ==
  /\ pc = "done"
  /\ \E i \in 1..Len(Times) :
       /\ Cover(Times[i]) > need[i]
       /\ \E m \in (i + 1)..Len(Times) : need[m] > 0 /\ Cover(Times[m]) = need[m]
  /\ \E r \in 1..Len(diensten_voorstel) : diensten_voorstel[r].via = "dayend"

\* C2: every emitted shift lasts at least MIN_SHIFT_HOURS, except a shift
\* closed at day end whose end is the end of the window; a shift in the
\* open list is never closed by the loop before it is that old.
C2_MinDuration ==
  \A r \in 1..Len(diensten_voorstel) :
    LET row == diensten_voorstel[r]
    IN  \/ row.eind_ts - row.start_ts >= MIN_SHIFT_HOURS * SlotsPerHour
        \/ row.via = "dayend" /\ row.eind_ts = WindowEnd

\* a spike to 2 that drops to 0 in the next slot, its shifts closed by the
\* loop, and a day-end shift shorter than the minimum
C2_Witness ==
  /\ pc = "done"
  /\ \E i \in 1..(Len(Times) - 1) :
       /\ need[i] >= 2
       /\ need[i + 1] = 0
       /\ \E r \in 1..Len(diensten_voorstel) :
            /\ diensten_voorstel[r].via = "close"
            /\ diensten_voorstel[r].start_ts = Times[i]
  /\ \E r \in 1..Len(diensten_voorstel) :
       /\ diensten_voorstel[r].via = "dayend"
       /\ diensten_voorstel[r].eind_ts - diensten_voorstel[r].start_ts
            < MIN_SHIFT_HOURS * SlotsPerHour

\* C3: every emitted shift starts at an in-window slot, ends after it
\* starts, and ends no later than the end of the window.
C3_InsideWindow ==
  \A r \in 1..Len(diensten_voorstel) :
    LET row == diensten_voorstel[r]
    IN  /\ row.start_ts >= StaffStartSlot
        /\ row.start_ts <= StaffEndLastSlot
        /\ row.start_ts < row.eind_ts
        /\ row.eind_ts <= WindowEnd

\* a finished request with a shift the day-end clamp cut short and a shift
\* closed by the loop
C3_Witness ==
  /\ pc = "done"
  /\ \E r \in 1..Len(diensten_voorstel) :
       /\ diensten_voorstel[r].via = "dayend"
       /\ diensten_voorstel[r].start_ts + MinShift > WindowEnd
       /\ diensten_voorstel[r].eind_ts = WindowEnd
  /\ \E r \in 1..Len(diensten_voorstel) : diensten_voorstel[r].via = "close"

\* round(sum(raw)), computed from the demand rows
RoundedTotal == RoundDiv(SumSeq(Raw), 100)

\* the remainder the integerization starts from
Remainder == RoundedTotal - SumSeq([i \in 1..Len(Raw) |-> TruncDiv(Raw[i], 100)])

\* C4 as stated: the curve handed to the shift synthesis sums to
\* round(sum(raw)), and with remainder 0 it is floor(raw) elementwise.
C4_Original ==
  Synthesizing =>
    /\ SumSeq(need) = RoundedTotal
    /\ Remainder = 0 => need = [i \in 1..Len(Raw) |-> Raw[i] \div 100]

\* C4 amended, for the curve at the end of the integerization: before the
\* template baseline is enforced it sums to round(sum(raw)) and, with
\* remainder 0, it is int(raw) elementwise.
C4_IntegerizedSum ==
  pc = "baseline" =>
    /\ SumSeq(need) = RoundedTotal
    /\ Remainder = 0 => need = [i \in 1..Len(Raw) |-> TruncDiv(Raw[i], 100)]

\* C4 amended, for the curve handed to the synthesis: the baseline step
\* leaves the curve as it is when no slot lies below its baseline, and no
\* later step changes it.
C4_BaselineStep ==
  /\ pc = "baseline" /\ (\A i \in 1..Len(need) : need[i] >= Baseline[i]) => need' = need
  /\ Synthesizing => need' = need

\* C4 amended: the integer curve sums exactly to round(sum(raw)), and with
\* remainder 0 equals int(raw) elementwise, at the end of the
\* integerization; the curve handed to the shift synthesis is that same
\* curve whenever no slot lies below its template baseline.
C4_SumPreserved == [](C4_IntegerizedSum) /\ [][C4_BaselineStep]_vars

\* a request handed to the synthesis whose integerization handed out a
\* positive remainder and whose curve no baseline raised
C4_Witness ==
  /\ pc = "synth"
  /\ Remainder > 0
  /\ template_rules # <<>>
  /\ SumSeq(need) = RoundedTotal
  /\ \E i \in 1..Len(need) : Baseline[i] > 0

\* C5: every request that passes the validation runs to its end.
C5_Terminates == <>(pc \in {"done", "rejected"})

\* C6: every value of the curve handed to the shift synthesis is >= 0.
C6_NonNegative ==
  Synthesizing => \A i \in 1..Len(need) : need[i] >= 0

\* a request with a negative target that reached the shift synthesis: some
\* raw head count is negative and a whole number
C6_Witness ==
  /\ Synthesizing
  /\ doel_pct * Omzet < 0
  /\ \E i \in 1..Len(Raw) : Raw[i] <= -100

\* C7 as stated: at most maxStartsPerSlot = 1 shifts start in the same slot.
C7_Original ==
  ShiftsWritten => \A i \in 1..Len(Times) : StartsAt(Times[i]) <= 1

\* C7 amended: a slot that requires delta more shifts than are open opens
\* all delta of them at that slot; no opening is deferred to a later slot.
C7_OpensAll ==
  [][pc = "synth" /\ k <= Len(Times) =>
       /\ Cardinality({m \in 1..Len(active') : active'[m] = Times[k]})
            = Max(0, need[k] - Len(active))
       /\ Len(active') >= need[k]]_vars

\* two open shifts that started in the same slot
C7_Witness ==
  /\ pc = "synth"
  /\ \E a, b \in 1..Len(active) : a # b /\ active[a] = active[b]

\* C8: every shift closed at day end ends exactly at the end of the window.
C8_DayEndAtWindowEnd ==
  \A r \in 1..Len(diensten_voorstel) :
    diensten_voorstel[r].via = "dayend" => diensten_voorstel[r].eind_ts = WindowEnd

\* a shift closed at day end although the last slot that needs staff ends
\* before the window does
C8_Witness ==
  /\ pc = "done"
  /\ NeededEnd(need) < WindowEnd
  /\ \E r \in 1..Len(diensten_voorstel) : diensten_voorstel[r].via = "dayend"

\* C9: when no slot ends with more open shifts than it requires, every
\* in-window slot is covered by exactly need[t] emitted shifts.
C9_ExactWhenFeasible ==
  ShiftsWritten /\ Feasible(need) =>
    \A i \in 1..Len(Times) : Cover(Times[i]) = need[i]

\* a finished feasible request whose curve rises above 1, falls again with
\* shifts closed by the loop, and ends with a shift closed at day end
C9_Witness ==
  /\ pc = "done"
  /\ Feasible(need)
  /\ \E i \in 1..Len(need) : need[i] >= 2
  /\ \E r \in 1..Len(diensten_voorstel) : diensten_voorstel[r].via = "close"
  /\ \E r \in 1..Len(diensten_voorstel) : diensten_voorstel[r].via = "dayend"

\* C10: the planned hours of the KPI row equal the sum of the durations of
\* the emitted shifts.
C10_KpiHours ==
  pc = "done" => kpi_dag[1].geplande_uren = SumDurations(diensten_voorstel)

\* C11: a request whose stored forecast is absent or <= 0, or whose blended
\* rate is <= 0, is rejected and writes no row.
C11_RejectsInvalid ==
  (prognose_dag = <<>> \/ prognose_dag[1] <= 0 \/ uurloon_avg <= 0) =>
    /\ pc \in {"forecast", "rate", "rejected"}
    /\ demand_15m = <<>>
    /\ diensten_voorstel = <<>>
    /\ voorstel_shifts = <<>>
    /\ kpi_dag = <<>>

\* the rows of role r in the tables t, with the KPI row of the date
OwnRows(t, r) ==
  [demand |-> RowsOfRol(t.demand, r), diensten |-> RowsOfRol(t.diensten, r),
   kpi |-> t.kpi]

\* the step in which request p fails
Fails(p) == req[p].pc # "failed" /\ req'[p].pc = "failed"

\* the step in which request p completes
Completes(p) == req[p].pc # "done" /\ req'[p].pc = "done"

\* the curves and rows computed from the stored inputs alone
ExpRaw ==
  [i \in 1..Len(Times) |->
     DemandRows(profiel_15m, doel_pct, Omzet, uurloon_avg)[Times[i]]]

ExpNeed == NeedOf(Times, ExpRaw)

ExpShifts(r) == ShiftRowsFor(r, Times, ExpNeed)

\* C12: when a request fails at one of its statements, the demand rows,
\* the shift rows and the KPI row of its (date, role) are what they were
\* when the request started.
C12_AllOrNothing ==
  [][\A p \in Procs :
       Fails(p) => OwnRows(db', req[p].rol) = OwnRows(req[p].before, req[p].rol)]_vars

\* C13: two completed requests for different roles each find their own
\* demand rows, shift rows, block rows and KPI row as they would be had the
\* request run alone, whatever the interleaving of their statements.
C13_Independent ==
  \A p, q \in Procs :
    (req[p].pc = "done" /\ req[q].pc = "done" /\ req[p].rol # req[q].rol) =>
      /\ RowsOfRol(db.demand, req[p].rol) = DemandRowsFor(req[p].rol)
      /\ RowsOfRol(db.diensten, req[p].rol) = ExpShifts(req[p].rol)
      /\ RowsOfRol(db.shifts, req[p].rol) = BlockRowsFor(req[p].rol)
      /\ db.kpi = <<KpiRow(ExpNeed, Omzet, uurloon_avg)>>

\* C14: with requests run one after the other, a request that completes
\* leaves for its (date, role) exactly the demand rows and shift rows
\* computed from the inputs, in their order, and has used the integer curve
\* computed from the inputs, whatever the tables held before; a second run
\* with the same inputs therefore leaves what the first left.
C14_FullOverwrite ==
  [][\A p \in Procs :
       Completes(p) =>
         /\ RowsOfRol(db'.demand, req[p].rol) = DemandRowsFor(req[p].rol)
         /\ RowsOfRol(db'.diensten, req[p].rol) = ExpShifts(req[p].rol)
         /\ req[p].need = ExpNeed]_vars

\* the second of two completed runs for one role started on the rows the
\* first had left, on tables that held other rows of the role before both
C14_Witness ==
  \E p, q \in Procs :
    /\ p # q
    /\ req[p].rol = req[q].rol
    /\ req[p].pc = "done"
    /\ req[q].pc = "done"
    /\ req[p].before = StaleDb
    /\ RowsOfRol(req[q].before.demand, req[q].rol) = DemandRowsFor(req[q].rol)
    /\ RowsOfRol(req[q].before.diensten, req[q].rol) = ExpShifts(req[q].rol)
    /\ ExpShifts(req[q].rol) # <<>>
    /\ RowsOfRol(db.diensten, req[q].rol) = ExpShifts(req[q].rol)

\* C15: two completed requests for the same role leave exactly one copy of
\* the demand rows and of the shift rows, whatever the interleaving of
\* their statements.
C15_OneCopy ==
  \A p, q \in Procs :
    (p # q /\ req[p].pc = "done" /\ req[q].pc = "done" /\ req[p].rol = req[q].rol) =>
      /\ RowsOfRol(db.demand, req[p].rol) = DemandRowsFor(req[p].rol)
      /\ RowsOfRol(db.diensten, req[p].rol) = ExpShifts(req[p].rol)

\* the share profile is zero at every in-window slot
ZeroWindow == Len(profiel_15m) = DaySlots /\ WSum(profiel_15m) = 0

\* C16 as stated: with a zero window sum the finished request leaves an
\* all-zero demand curve, no shift row and a planned percentage of 0.
C16_Original ==
  pc = "done" /\ ZeroWindow =>
    /\ \A ts \in 1..DaySlots : demand_15m[ts] = 0
    /\ diensten_voorstel = <<>>
    /\ kpi_dag[1].geplande_pct.num = 0

\* C16 amended: with a zero window sum the request enters no rounding loop
\* and is not rejected after validation; when it is done the demand curve
\* is all zero and need is the template baseline, and with a baseline of 0
\* in every slot there is no shift row and the planned percentage is 0.
C16_EmptyDemand ==
  /\ pc \in {"read", "inc", "dec", "baseline", "synth", "blocks", "kpi", "done"} /\ ZeroWindow
       => /\ pc \notin {"inc", "dec"}
          /\ \A ts \in 1..DaySlots : demand_15m[ts] = 0
  /\ pc = "done" /\ ZeroWindow
       => /\ \A i \in 1..Len(need) : need[i] = BaselineAt(template_rules, Times[i], 0)
          /\ (\A i \in 1..Len(need) : BaselineAt(template_rules, Times[i], 0) = 0)
               => /\ diensten_voorstel = <<>>
                  /\ kpi_dag[1].geplande_uren = 0
                  /\ kpi_dag[1].geplande_pct.num = 0

\* a finished request with a non-zero target, a zero window sum and no
\* template rule
C16_Witness ==
  /\ pc = "done"
  /\ ZeroWindow
  /\ template_rules = <<>>
  /\ doel_pct * Omzet > 0
  /\ diensten_voorstel = <<>>

\* floor of the raw head count of position i
FloorRaw(i) == Raw[i] \div 100

\* fractional part of the raw head count of position i, in hundredths
FracRaw(i) == Raw[i] - 100 * FloorRaw(i)

\* position i was incremented by the rounding
Incremented(i) == need[i] = FloorRaw(i) + 1

\* position a ranks before position b: larger fraction, or equal fraction
\* and earlier in the day
RanksBefore(a, b) ==
  FracRaw(a) > FracRaw(b) \/ (FracRaw(a) = FracRaw(b) /\ a < b)

\* C17: with a positive remainder, at the end of the integerization every
\* value is floor(x) or floor(x) + 1, exactly `remainder` positions are
\* incremented, and every incremented position ranks before every position
\* that is not (larger fraction, ties to the earlier slot); raw values
\* 0.6, 0.6, 0.6 give 1, 1, 0 and raw values 0.3, 0.7, 0.5 give 0, 1, 1.
C17_LargestRemainder ==
  /\ pc = "baseline" /\ Remainder > 0 =>
       /\ \A i \in 1..Len(need) : need[i] = FloorRaw(i) \/ Incremented(i)
       /\ Cardinality({i \in 1..Len(need) : Incremented(i)}) = Remainder
       /\ \A a, b \in 1..Len(need) :
            Incremented(a) /\ ~Incremented(b) => RanksBefore(a, b)
  /\ Integerized(<<60, 60, 60>>) = <<1, 1, 0>>
  /\ Integerized(<<30, 70, 50>>) = <<0, 1, 1>>

\* an integerization that broke a tie: two positions of equal fraction, the
\* earlier one incremented and the later one not
C17_Witness ==
  /\ pc = "baseline"
  /\ Remainder > 0
  /\ \E a, b \in 1..Len(need) :
       /\ a < b
       /\ FracRaw(a) = FracRaw(b)
       /\ FracRaw(a) > 0
       /\ Incremented(a)
       /\ ~Incremented(b)

\* C18 as stated: among positions of equal fraction the later one is
\* incremented before the earlier one.
C18_Original ==
  pc = "baseline" /\ Remainder > 0 =>
    \A a, b \in 1..Len(need) :
      a < b /\ FracRaw(a) = FracRaw(b) /\ Incremented(a) => Incremented(b)

\* C18 amended: every pass of the increment loop increments the position
\* with the largest fraction among those not yet incremented, the earliest
\* such position among equal fractions (no late bias).
C18_PlainFraction ==
  [][pc = "inc" =>
       \E idx \in 1..Len(need) :
         /\ need' = [need EXCEPT ![idx] = @ + 1]
         /\ need[idx] = FloorRaw(idx)
         /\ \A m \in 1..Len(need) :
              m # idx /\ need[m] = FloorRaw(m) => RanksBefore(idx, m)]_vars

\* the increment loop after its first pass, with two positions of equal
\* fraction still waiting their turn
C18_Witness ==
  /\ pc = "inc"
  /\ j >= 1
  /\ \E a, b \in 1..Len(need) :
       /\ a < b
       /\ FracRaw(a) = FracRaw(b)
       /\ need[a] = FloorRaw(a)
       /\ need[b] = FloorRaw(b)

\* the open shifts are in start order
ActiveSorted == \A a, b \in 1..Len(active) : a < b => active[a] <= active[b]

\* the rows a step of the synthesis inserts
NewRows == SubSeq(diensten_voorstel', Len(diensten_voorstel) + 1, Len(diensten_voorstel'))

\* C19: the list of open shifts stays ordered by start time, and a shift the
\* close phase closes is at least 3 hours old and no younger than any shift
\* left open.
C19_OldestFirst ==
  /\ [](ActiveSorted)
  /\ [][pc = "synth" /\ k <= Len(Times) =>
          \A r \in 1..Len(NewRows) :
            /\ Times[k] - NewRows[r].start_ts >= MIN_SHIFT_HOURS * SlotsPerHour
            /\ \A m \in 1..Len(active') : NewRows[r].start_ts <= active'[m]]_vars

\* a slot at which two open shifts of different start were old enough to
\* close and only the older one was closed
C19_Witness ==
  /\ pc = "synth"
  /\ k > 1
  /\ \E r \in 1..Len(diensten_voorstel) :
       /\ diensten_voorstel[r].via = "close"
       /\ diensten_voorstel[r].eind_ts = Times[k - 1]
       /\ \E m \in 1..Len(active) :
            /\ active[m] > diensten_voorstel[r].start_ts
            /\ Times[k - 1] - active[m] >= MIN_SHIFT_HOURS * SlotsPerHour

\* C20: the curve handed to the synthesis is nowhere below the template
\* baseline, and the baseline step raises the slots below it to the
\* baseline and leaves every other slot as it was.
C20_BaselineFloor ==
  /\ [](Synthesizing => \A i \in 1..Len(need) :
                          need[i] >= BaselineAt(template_rules, Times[i], 0))
  /\ [][pc = "baseline" =>
          \A i \in 1..Len(need) :
            LET b == BaselineAt(template_rules, Times[i], 0)
            IN  need'[i] = IF need[i] >= b THEN need[i] ELSE b]_vars

\* a curve handed to the synthesis with one slot raised to its baseline and
\* another left above a non-zero baseline
C20_Witness ==
  /\ pc = "synth"
  /\ \E i, m \in 1..Len(need) :
       /\ Baseline[i] > 0
       /\ need[i] > Baseline[i]
       /\ need[m] = Baseline[m]
       /\ Raw[m] < 100 * Baseline[m] - 100

====
